---- MODULE Spec2Model ----
(***************************************************************************)
(* Model of the snake game of src/src/App.tsx: the session state held in   *)
(* React refs and React state, the handlers startGame / stopGame /         *)
(* resetGame / handleDirectionChange, and moveSnake, the callback run by   *)
(* every setInterval driver.  The board is scaled down (COLS, ROWS and     *)
(* DEFAULT_LENGTH are 48, 48 and 10 in the source); nothing in the         *)
(* handlers depends on the literal sizes.                                  *)
(***************************************************************************)
EXTENDS Integers, Sequences, FiniteSets, TLC

\* ---- bounds of the model ------------------------------------------------
COLS == 3
ROWS == 2
DEFAULT_LENGTH == 2
\* at most this many setInterval drivers are alive at once
MaxIntervals == 2
\* a tick is not taken once the ticks-elapsed counter has reached this value
MaxPlaying == 3
\* a food-consuming tick is not taken once the score has reached this value
MaxPoints == 10

\* ---- program constants --------------------------------------------------
\* a bonus of half the size
BONUS_Half == 10 \div 2

\* setPoints((points) => points + 10)
BONUS == 10
\* timer.current = null
NULL == 0

VARIABLES
  snakeCoordinates,     \* ref: sequence of cells, tail first, head last
  tailAliasesHead,      \* whether coords[0] and the last element are one object
  snakeCoordinatesMap,  \* ref: set of cell keys built by the last sync
  direction,            \* ref: current Direction
  foodCoords,           \* ref: the food cell
  points,               \* React state
  gameOver,             \* React state
  isPlaying,            \* React state: ticks elapsed since the last stop
  timer,                \* ref: id of the interval stored last, or NULL
  intervals,            \* live setInterval drivers: id -> gameOver captured
                        \* by the moveSnake closure the driver calls
  lastOp                \* history: the operation that produced this state

vars == <<snakeCoordinates, tailAliasesHead, snakeCoordinatesMap, direction,
          foodCoords, points, gameOver, isPlaying, timer, intervals, lastOp>>

Direction == {"UP", "DOWN", "RIGHT", "LEFT"}

\* keys delivered by keydown and by the four on-screen buttons; "Other"
\* stands for every key that is not an arrow key
Keys == {"ArrowUp", "ArrowDown", "ArrowRight", "ArrowLeft", "Other"}

Coordinate(r, c) == [row |-> r, col |-> c]

Grid == {Coordinate(r, c) : r \in 0..(ROWS - 1), c \in 0..(COLS - 1)}

\* `${coord.row}:${coord.col}`
Key(coord) == <<coord.row, coord.col>>

\* the default snake: row 0, cols 0..DEFAULT_LENGTH-1, head last
DefaultSnake == [i \in 1..DEFAULT_LENGTH |-> Coordinate(0, i - 1)]

\* new Set(snakeCoordinates.current.map(key))
SyncSet(coords) == {Key(coords[i]) : i \in 1..Len(coords)}

\* a food placement that ignores the occupied-set
FreeCells_Any(map) == Grid

\* the cells populateFoodBall can return for a given occupied-set
FreeCells(map) == {c \in Grid : Key(c) \notin map}

\* getNewDirection
getNewDirection(key, cur) ==
  CASE key = "ArrowUp" -> "UP"
    [] key = "ArrowDown" -> "DOWN"
    [] key = "ArrowRight" -> "RIGHT"
    [] key = "ArrowLeft" -> "LEFT"
    [] OTHER -> cur

\* a 180-degree test that forgets the horizontal pair
IsReversal_VerticalOnly(cur, new) ==
  \/ cur = "UP" /\ new = "DOWN"
  \/ cur = "DOWN" /\ new = "UP"

\* the 180-degree test of handleDirectionChange
IsReversal(cur, new) ==
  \/ cur = "UP" /\ new = "DOWN"
  \/ cur = "DOWN" /\ new = "UP"
  \/ cur = "LEFT" /\ new = "RIGHT"
  \/ cur = "RIGHT" /\ new = "LEFT"

\* direction.current after handleDirectionChange(key)
DirectionAfter(cur, key) ==
  LET new == getNewDirection(key, cur)
  IN IF IsReversal(cur, new) THEN cur ELSE new

\* the switch of moveSnake: the head moved one unit
Step(head, dir) ==
  CASE dir = "UP" -> Coordinate(head.row - 1, head.col)
    [] dir = "DOWN" -> Coordinate(head.row + 1, head.col)
    [] dir = "RIGHT" -> Coordinate(head.row, head.col + 1)
    [] dir = "LEFT" -> Coordinate(head.row, head.col - 1)

\* a wall test that is off by one on the right and bottom edges
collisionCheck_OffByOne(snakeHead, map) ==
  \/ snakeHead.col > COLS
  \/ snakeHead.row > ROWS
  \/ snakeHead.col < 0
  \/ snakeHead.row < 0
  \/ Key(snakeHead) \in map

\* collisionCheck, against the occupied-set as it is when it is called
collisionCheck(snakeHead, map) ==
  \/ snakeHead.col >= COLS
  \/ snakeHead.row >= ROWS
  \/ snakeHead.col < 0
  \/ snakeHead.row < 0
  \/ Key(snakeHead) \in map

\* a food test made after the switch has moved the head
FoodCheckHead_PostStep(snakeHead, newHead) == newHead

\* the head the food test of moveSnake reads: it runs before the switch
\* moves snakeHead, so it sees the head of the previous tick
FoodCheckHead(snakeHead, newHead) == snakeHead

\* coords after coords.pop() and the forEach of moveSnake: every element takes
\* the value of the next one and the last takes a copy of the popped head,
\* so the old first element is gone and the old head cell is last
Shifted(body) == SubSeq(body, 2, Len(body))

\* a commit that never re-inserts the tail
NewCoordinates_NoGrowth(snakeTail, coords, snakeHead, foodConsumed) ==
  coords \o <<snakeHead>>

\* a commit that re-inserts the tail on every tick
NewCoordinates_AlwaysGrow(snakeTail, coords, snakeHead, foodConsumed) ==
  <<snakeTail>> \o coords \o <<snakeHead>>

\* coords.push(snakeHead) and the array stored in snakeCoordinates.current
NewCoordinates(snakeTail, coords, snakeHead, foodConsumed) ==
  IF foodConsumed
    THEN <<snakeTail>> \o coords \o <<snakeHead>>
    ELSE coords \o <<snakeHead>>

\* setInterval returns an id no live driver has
FreshId == CHOOSE id \in 1..(MaxIntervals + 1) : id \notin DOMAIN intervals

\* clearInterval(id)
Cleared(id) == [j \in (DOMAIN intervals) \ {id} |-> intervals[j]]

Op(o, k, f, c) == [op |-> o, key |-> k, foodConsumed |-> f, collided |-> c]

\* state after the two mount effects
Init ==
  /\ snakeCoordinates = DefaultSnake
  /\ tailAliasesHead = (DEFAULT_LENGTH = 1)
  /\ snakeCoordinatesMap = SyncSet(DefaultSnake)
  /\ direction = "RIGHT"
  /\ foodCoords \in FreeCells(SyncSet(DefaultSnake))
  /\ points = 0
  /\ gameOver = FALSE
  /\ isPlaying = 0
  /\ timer = NULL
  /\ intervals = << >>
  /\ lastOp = Op("mount", "", FALSE, FALSE)

\* handleDirectionChange(key)
handleDirectionChange(key) ==
  /\ direction' = DirectionAfter(direction, key)
  /\ lastOp' = Op("handleDirectionChange", key, FALSE, FALSE)
  /\ UNCHANGED <<snakeCoordinates, tailAliasesHead, snakeCoordinatesMap,
                 foodCoords, points, gameOver, isPlaying, timer, intervals>>

\* a reset that forgets direction.current
ResetEffect_KeepsDirection ==
  /\ snakeCoordinates' = DefaultSnake
  /\ tailAliasesHead' = (DEFAULT_LENGTH = 1)
  /\ UNCHANGED direction
  /\ gameOver' = FALSE
  /\ points' = 0
  /\ snakeCoordinatesMap' = SyncSet(DefaultSnake)
  /\ foodCoords' \in FreeCells(SyncSet(DefaultSnake))

\* the refs and state resetGame writes
ResetEffect ==
  /\ snakeCoordinates' = DefaultSnake
  /\ tailAliasesHead' = (DEFAULT_LENGTH = 1)
  /\ direction' = "RIGHT"
  /\ gameOver' = FALSE
  /\ points' = 0
  /\ snakeCoordinatesMap' = SyncSet(DefaultSnake)
  /\ foodCoords' \in FreeCells(SyncSet(DefaultSnake))

\* resetGame
resetGame ==
  /\ ResetEffect
  /\ lastOp' = Op("resetGame", "", FALSE, FALSE)
  /\ UNCHANGED <<isPlaying, timer, intervals>>

\* startGame: the new driver calls the moveSnake of the render that built
\* this startGame, so it keeps that render's gameOver
startGame ==
  /\ Cardinality(DOMAIN intervals) < MaxIntervals
  /\ IF gameOver
       THEN ResetEffect
       ELSE UNCHANGED <<snakeCoordinates, tailAliasesHead, direction, gameOver,
                        points, snakeCoordinatesMap, foodCoords>>
  /\ intervals' = [j \in (DOMAIN intervals) \cup {FreshId} |->
                     IF j = FreshId THEN gameOver ELSE intervals[j]]
  /\ timer' = FreshId
  /\ lastOp' = Op("startGame", "", FALSE, FALSE)
  /\ UNCHANGED isPlaying

\* the refs and state stopGame writes
StopEffect ==
  /\ gameOver' = TRUE
  /\ isPlaying' = 0
  /\ intervals' = IF timer # NULL THEN Cleared(timer) ELSE intervals
  /\ timer' = NULL

\* stopGame called from the STOP button
stopGame ==
  /\ StopEffect
  /\ lastOp' = Op("stopGame", "", FALSE, FALSE)
  /\ UNCHANGED <<snakeCoordinates, tailAliasesHead, snakeCoordinatesMap,
                 direction, foodCoords, points>>

\* moveSnake as run by the live driver id
moveSnake(id) ==
  /\ id \in DOMAIN intervals
  /\ isPlaying < MaxPlaying
  /\ IF intervals[id]
       THEN \* if (gameOver) return;
            /\ lastOp' = Op("moveSnake", "", FALSE, FALSE)
            /\ UNCHANGED <<snakeCoordinates, tailAliasesHead,
                           snakeCoordinatesMap, direction, foodCoords, points,
                           gameOver, isPlaying, timer, intervals>>
       ELSE IF Len(snakeCoordinates) = 0
       THEN \* coords.pop() is undefined
            /\ isPlaying' = isPlaying + 1
            /\ lastOp' = Op("moveSnake", "", FALSE, FALSE)
            /\ UNCHANGED <<snakeCoordinates, tailAliasesHead,
                           snakeCoordinatesMap, direction, foodCoords, points,
                           gameOver, timer, intervals>>
       ELSE
         LET n == Len(snakeCoordinates)
             snakeHead == snakeCoordinates[n]
             newHead == Step(snakeHead, direction)
             foodConsumed ==
               /\ FoodCheckHead(snakeHead, newHead).row = foodCoords.row
               /\ FoodCheckHead(snakeHead, newHead).col = foodCoords.col
             coords == Shifted(snakeCoordinates)
             \* coords[0] read before the pop: the head object itself when
             \* the two are one object, and then it is stepped with it
             snakeTail == IF tailAliasesHead THEN newHead
                          ELSE snakeCoordinates[1]
             collided == collisionCheck(newHead, snakeCoordinatesMap)
         IN /\ foodConsumed => points < MaxPoints
            /\ IF foodConsumed
                 THEN /\ points' = points + BONUS
                      /\ foodCoords' \in FreeCells(snakeCoordinatesMap)
                 ELSE UNCHANGED <<points, foodCoords>>
            /\ IF collided
                 THEN /\ StopEffect
                      /\ snakeCoordinates' = coords
                      /\ tailAliasesHead' = (Len(coords) = 1)
                      /\ UNCHANGED snakeCoordinatesMap
                 ELSE /\ snakeCoordinates' =
                           NewCoordinates(snakeTail, coords, newHead,
                                          foodConsumed)
                      /\ tailAliasesHead' =
                           IF foodConsumed THEN tailAliasesHead ELSE n = 1
                      /\ snakeCoordinatesMap' = SyncSet(snakeCoordinates')
                      /\ isPlaying' = isPlaying + 1
                      /\ UNCHANGED <<gameOver, timer, intervals>>
            /\ lastOp' = Op("moveSnake", "", foodConsumed, collided)
            /\ UNCHANGED direction

\* ---- the events the page can deliver ------------------------------------
\* the START GAME button is rendered
ClickStart == ~gameOver /\ isPlaying = 0 /\ startGame

\* the STOP GAME button is rendered
ClickStop == ~gameOver /\ isPlaying # 0 /\ stopGame

\* the PLAY AGAIN button is rendered
ClickPlayAgain == gameOver /\ resetGame

\* keydown, or one of the UP / LEFT / RIGHT / DOWN buttons
KeyDown == \E key \in Keys : handleDirectionChange(key)

\* a live interval fires
Tick == \E id \in DOMAIN intervals : moveSnake(id)

Next == ClickStart \/ ClickStop \/ ClickPlayAgain \/ KeyDown \/ Tick

Spec == Init /\ [][Next]_vars

\* ---- the handlers called directly ---------------------------------------
\* The session as the interface start / stop / reset / setDirection / tick:
\* every handler can be called in every state, by a caller that holds the
\* handlers of the current render.  The page itself only offers the events
\* of Next.
NextApi == startGame \/ stopGame \/ resetGame \/ KeyDown \/ Tick

SpecApi == Init /\ [][NextApi]_vars

\* the ranges the guards keep the state in
TypeOK ==
  /\ direction \in Direction
  /\ foodCoords \in Grid
  /\ gameOver \in BOOLEAN
  /\ isPlaying \in 0..MaxPlaying
  /\ points \in 0..(MaxPoints + BONUS - 1)
  /\ timer \in {NULL} \cup DOMAIN intervals

\* ---- vocabulary of the properties ---------------------------------------
\* the cells of a body
Cells(seq) == {seq[i] : i \in 1..Len(seq)}

NoDuplicates(seq) == \A i, j \in 1..Len(seq) : i # j => seq[i] # seq[j]

\* the step being taken is a tick (an execution of moveSnake)
TickStep == lastOp'.op = "moveSnake"

\* the lifecycle phase: GameOver once gameOver is set, Running while a driver
\* stored by startGame has not been cancelled, Idle otherwise
Phase ==
  IF gameOver THEN "GameOver"
  ELSE IF timer # NULL THEN "Running"
  ELSE "Idle"

\* the direction an arrow key requests
Requested(key) ==
  CASE key = "ArrowUp" -> "UP"
    [] key = "ArrowDown" -> "DOWN"
    [] key = "ArrowRight" -> "RIGHT"
    [] key = "ArrowLeft" -> "LEFT"

Opposite(dir) ==
  CASE dir = "UP" -> "DOWN"
    [] dir = "DOWN" -> "UP"
    [] dir = "RIGHT" -> "LEFT"
    [] dir = "LEFT" -> "RIGHT"

\* the head of a non-empty body moved one unit in the current direction
Candidate == Step(snakeCoordinates[Len(snakeCoordinates)], direction)

\* ---- C1 -----------------------------------------------------------------
\* C1: in every reachable state the snake body has no duplicate cells and
\* every body cell is inside the grid.
C1_BodyDistinctInBounds ==
  /\ NoDuplicates(snakeCoordinates)
  /\ Cells(snakeCoordinates) \subseteq Grid

\* ---- C2 -----------------------------------------------------------------
\* C2: in every reachable state, the state left by a colliding tick
\* included, the occupied-set is exactly the set of cells of the body.
C2_MapEqualsBody == snakeCoordinatesMap = SyncSet(snakeCoordinates)

\* ---- C3 -----------------------------------------------------------------
\* C3: a direction request that is the exact opposite of the current
\* direction leaves the direction unchanged; any other request becomes the
\* current direction.
C3_ReversalRejected ==
  [][\A key \in Keys \ {"Other"} :
       (lastOp'.op = "handleDirectionChange" /\ lastOp'.key = key) =>
         direction' = IF Requested(key) = Opposite(direction)
                        THEN direction
                        ELSE Requested(key)]_vars

\* current RIGHT, LEFT requested, and the direction is still RIGHT
C3_Witness ==
  /\ lastOp.op = "handleDirectionChange"
  /\ lastOp.key = "ArrowLeft"
  /\ direction = "RIGHT"

C5_FoodOffNewBody ==
  [][(TickStep /\ lastOp'.foodConsumed) =>
       /\ foodCoords' # foodCoords
       /\ foodCoords' \notin Cells(snakeCoordinates')]_vars

C7_CollisionTerminates ==
  [][(/\ TickStep
      /\ Len(snakeCoordinates) > 0
      /\ \/ Candidate \notin Grid
         \/ Candidate \in Cells(snakeCoordinates)) =>
       (lastOp'.collided /\ Phase' = "GameOver")]_vars

\* a tick moving RIGHT from the last column has collided and ended the game
C7_Witness ==
  /\ lastOp.op = "moveSnake"
  /\ lastOp.collided
  /\ gameOver
  /\ direction = "RIGHT"
  /\ Len(snakeCoordinates) > 0
  /\ snakeCoordinates[Len(snakeCoordinates)].col = COLS - 1

\* ---- C8 -----------------------------------------------------------------
\* C8: a tick that ends in a collision leaves the body, the occupied-set,
\* the food cell and the score as they were before the tick.
C8_CollisionAborts ==
  [][(TickStep /\ lastOp'.collided) =>
       UNCHANGED <<snakeCoordinates, snakeCoordinatesMap, foodCoords,
                   points>>]_vars

\* ---- C9 -----------------------------------------------------------------
\* C9: a tick that fires while the phase is GameOver or Idle changes none of
\* body, occupied-set, food, score, direction and phase.
C9_TickNoOpUnlessRunning ==
  [][(TickStep /\ Phase # "Running") =>
       /\ UNCHANGED <<snakeCoordinates, snakeCoordinatesMap, foodCoords,
                      points, direction>>
       /\ Phase' = Phase]_vars

\* ---- C10 ----------------------------------------------------------------
\* C10: after stopGame, from the button or from a colliding tick, no tick
\* executes until startGame is called again.  timer is NULL exactly from a
\* stopGame (or the mount) to the next startGame.
C10_Cancellation == [][(timer = NULL) => ~TickStep]_vars

\* ---- C11 ----------------------------------------------------------------
\* C11: stopGame leaves the session stopped but not over, with the
\* ticks-elapsed counter at 0, and the phase becomes GameOver only by a tick
\* that collided.
C11_StopIsNotGameOver ==
  [][/\ lastOp'.op = "stopGame" => (Phase' # "GameOver" /\ isPlaying' = 0)
     /\ (Phase # "GameOver" /\ Phase' = "GameOver") =>
          (TickStep /\ lastOp'.collided)]_vars

\* ---- C12 ----------------------------------------------------------------
\* C12: resetGame leaves the default body (row 0, one cell per column from
\* column 0, tail first), an occupied-set equal to it, direction RIGHT,
\* score 0, a phase other than GameOver and a food cell inside the grid and
\* off the snake, and it starts no driver.
C12_ResetPostcondition ==
  [][lastOp'.op = "resetGame" =>
       /\ Len(snakeCoordinates') = DEFAULT_LENGTH
       /\ \A i \in 1..DEFAULT_LENGTH :
            snakeCoordinates'[i] = Coordinate(0, i - 1)
       /\ snakeCoordinatesMap' = SyncSet(snakeCoordinates')
       /\ direction' = "RIGHT"
       /\ points' = 0
       /\ Phase' # "GameOver"
       /\ foodCoords' \in Grid
       /\ foodCoords' \notin Cells(snakeCoordinates')
       /\ UNCHANGED <<intervals, timer>>]_vars

\* resetGame has just run on a session whose direction and body it had to
\* restore: no driver is stored and the game is not over
C12_Witness ==
  /\ lastOp.op = "resetGame"
  /\ snakeCoordinates = DefaultSnake
  /\ direction = "RIGHT"
  /\ points = 0
  /\ ~gameOver
  /\ timer = NULL

\* ---- C13 ----------------------------------------------------------------
\* C13: startGame called while the phase is GameOver resets the session
\* (default body, direction RIGHT, score 0, food on a free cell) and leaves
\* it Running, and the ticks of a Running session advance the snake.
C13_StartAfterGameOverRuns ==
  [][/\ (lastOp'.op = "startGame" /\ Phase = "GameOver") =>
          /\ snakeCoordinates' = DefaultSnake
          /\ direction' = "RIGHT"
          /\ points' = 0
          /\ foodCoords' \in FreeCells(SyncSet(DefaultSnake))
          /\ Phase' = "Running"
     /\ (TickStep /\ Phase = "Running" /\ Len(snakeCoordinates) > 0) =>
          snakeCoordinates' # snakeCoordinates]_vars

\* ---- C14 ----------------------------------------------------------------
\* the default body one tick later with direction RIGHT
DefaultSnakeMoved == [i \in 1..DEFAULT_LENGTH |-> Coordinate(0, i)]

\* the cell right of the default head, where the scenario puts the food
ScenarioFood == Coordinate(0, DEFAULT_LENGTH)

C15_ScoreAdditive ==
  /\ [](points \in Nat)
  /\ [][/\ TickStep =>
             \/ points' = points /\ ~lastOp'.foodConsumed
             \/ points' = points + 10 /\ lastOp'.foodConsumed
        /\ (~TickStep /\ lastOp'.op # "resetGame") => points' = points
        /\ lastOp'.op # "resetGame" => points' >= points]_vars

\* a tick has consumed food and the score is 10
C15_Witness ==
  /\ lastOp.op = "moveSnake"
  /\ lastOp.foodConsumed
  /\ points = 10

\* ---- C16 ----------------------------------------------------------------
\* the body the claim says the self-collision test reads: the cells left
\* after the shift, without the old tail unless the tick grows the snake
PostShiftBody(foodConsumed) ==
  IF foodConsumed
    THEN Cells(snakeCoordinates)
    ELSE Cells(Shifted(snakeCoordinates))

\* C16: a tick whose candidate head is inside the grid reports a collision
\* exactly when the candidate is a cell of the post-shift body; a
\* non-consuming step into the cell the old tail is leaving is no collision.
C16_SelfCollisionPostShift ==
  [][(TickStep /\ Len(snakeCoordinates) > 0 /\ Candidate \in Grid) =>
       (lastOp'.collided <=>
          Candidate \in PostShiftBody(lastOp'.foodConsumed))]_vars

\* ---- C17 ----------------------------------------------------------------
\* C17: whatever direction changes were requested since the previous tick,
\* the candidate head of a tick is never the segment directly behind the
\* head (the snake never steps onto its own neck).
C17_NoNeckStep ==
  [][(TickStep /\ Len(snakeCoordinates) >= 2) =>
       Candidate # snakeCoordinates[Len(snakeCoordinates) - 1]]_vars

\* ---- C18 ----------------------------------------------------------------
\* C18: at most one tick driver is scheduled at any time, and the stored
\* timer handle refers to every scheduled driver.
C18_SingleDriver ==
  /\ Cardinality(DOMAIN intervals) <= 1
  /\ DOMAIN intervals \subseteq {timer}

\* ---- C19 ----------------------------------------------------------------
\* C19: the body always has at least one cell and never fewer than the
\* initial length, and no step other than a reset makes it shorter, ticks
\* that end in a collision included.
C19_LengthNeverDecreases ==
  /\ [](Len(snakeCoordinates) >= 1 /\ Len(snakeCoordinates) >= DEFAULT_LENGTH)
  /\ [][lastOp'.op # "resetGame" =>
          Len(snakeCoordinates') >= Len(snakeCoordinates)]_vars

\* ---- C20 ----------------------------------------------------------------
\* C20: the food cell is inside the grid and every body cell it coincides
\* with is the cell of the head (the last body element); a tick taken with
\* the food on the head cell consumes it.
C20_FoodOnlyOnHead ==
  /\ [](/\ foodCoords \in Grid
        /\ \A i \in 1..Len(snakeCoordinates) :
             snakeCoordinates[i] = foodCoords =>
               snakeCoordinates[i] = snakeCoordinates[Len(snakeCoordinates)])
  /\ [][(/\ TickStep
         /\ Len(snakeCoordinates) > 0
         /\ foodCoords = snakeCoordinates[Len(snakeCoordinates)]) =>
          lastOp'.foodConsumed]_vars

\* a committed tick has just put the head on the food cell
C20_Witness ==
  /\ lastOp.op = "moveSnake"
  /\ ~lastOp.collided
  /\ ~gameOver
  /\ Len(snakeCoordinates) >= DEFAULT_LENGTH
  /\ foodCoords = snakeCoordinates[Len(snakeCoordinates)]
====
